---------------------------- MODULE Spec2Model ----------------------------
(***************************************************************************)
(* Model of the concentrated-liquidity swap engine of crisp-exchange:      *)
(* src/src/position.rs (tick/price arithmetic, Position) and               *)
(* src/src/pool.rs (Pool, the tick walk of get_swap_result).               *)
(*                                                                         *)
(* Numbers.  The program computes in f64.  The model computes in exact     *)
(* rational arithmetic extended with the IEEE-754 special values that the  *)
(* program's divisions by zero produce: a value is a pair <<n, d>> with    *)
(* d >= 0 and gcd(n, d) = 1; <<1, 0>> is +infinity, <<-1, 0>> is -infinity *)
(* and <<0, 0>> is NaN.  Comparisons with NaN are false, as in IEEE-754.   *)
(* Rounding of finite results is not modelled in the arithmetic of the     *)
(* pool and of a position, and neither is the sign of zero (every zero     *)
(* divisor of the program is a +0.0: a difference x - x or an empty sum).  *)
(* Where a property depends on the last bit of a result (the conversions   *)
(* between ticks and prices, which take a floor of a logarithm), the       *)
(* results of powf and log are the values f64_outcomes allows.             *)
(*                                                                         *)
(* Tick grid.  BASIS_POINT is defined outside the files modelled here; the *)
(* model uses a coarse basis with an exact square root, so that every grid *)
(* price BASIS^(tick/2) is a rational number.                              *)
(***************************************************************************)
EXTENDS Integers, Sequences, FiniteSets, TLC

(***************************************************************************)
(* f64 values                                                              *)
(***************************************************************************)
RECURSIVE Gcd(_, _)
Gcd(a, b) == IF b = 0 THEN a ELSE Gcd(b, a % b)

IntAbs(n) == IF n < 0 THEN -n ELSE n

Sign(n) == IF n > 0 THEN 1 ELSE IF n < 0 THEN -1 ELSE 0

\* The canonical pair of n/d (d of either sign; d = 0 gives an infinity or NaN).
Norm(n, d) ==
    IF d = 0 THEN <<Sign(n), 0>>
    ELSE LET g == Gcd(IntAbs(n), IntAbs(d))
             s == IF d < 0 THEN -1 ELSE 1
         IN  <<(s * n) \div g, (s * d) \div g>>

NaN == <<0, 0>>
PosInf == <<1, 0>>
NegInf == <<-1, 0>>
Zero == <<0, 1>>
One == <<1, 1>>

\* `n as f64` for an integer n.
F(n) == <<n, 1>>

IsNaN(a) == a = NaN
IsInf(a) == a[2] = 0 /\ a[1] # 0
IsFinite(a) == a[2] # 0

FNeg(a) == <<-a[1], a[2]>>

FAbs(a) == <<IntAbs(a[1]), a[2]>>

FAdd(a, b) ==
    IF IsNaN(a) \/ IsNaN(b) THEN NaN
    ELSE IF IsInf(a) THEN (IF IsInf(b) /\ b # a THEN NaN ELSE a)
    ELSE IF IsInf(b) THEN b
    ELSE LET g == Gcd(a[2], b[2])
         IN  Norm(a[1] * (b[2] \div g) + b[1] * (a[2] \div g), (a[2] \div g) * b[2])

FSub(a, b) == FAdd(a, FNeg(b))

FMul(a, b) ==
    IF IsNaN(a) \/ IsNaN(b) THEN NaN
    ELSE IF IsInf(a) \/ IsInf(b) THEN <<Sign(a[1]) * Sign(b[1]), 0>>
    ELSE LET g1 == Gcd(IntAbs(a[1]), b[2])
             g2 == Gcd(IntAbs(b[1]), a[2])
         IN  Norm((a[1] \div g1) * (b[1] \div g2), (a[2] \div g2) * (b[2] \div g1))

FDiv(a, b) ==
    IF IsNaN(a) \/ IsNaN(b) THEN NaN
    ELSE IF IsInf(a) THEN (IF IsInf(b) THEN NaN
                            ELSE IF b[1] < 0 THEN FNeg(a) ELSE a)
    ELSE IF IsInf(b) THEN Zero
    ELSE IF b[1] = 0 THEN <<Sign(a[1]), 0>>
    ELSE FMul(a, <<Sign(b[1]) * b[2], IntAbs(b[1])>>)

\* The comparison operators of f64: false whenever an operand is NaN.
FLt(a, b) ==
    /\ ~IsNaN(a)
    /\ ~IsNaN(b)
    /\ IF IsInf(a) \/ IsInf(b)
       THEN a # b /\ (a = NegInf \/ b = PosInf)
       ELSE LET g == Gcd(a[2], b[2])
            IN  a[1] * (b[2] \div g) < b[1] * (a[2] \div g)

FEq(a, b) == ~IsNaN(a) /\ ~IsNaN(b) /\ a = b

FLe(a, b) == FLt(a, b) \/ FEq(a, b)

FGt(a, b) == FLt(b, a)

FGe(a, b) == FLe(b, a)

FSquare(a) == FMul(a, a)

\* f64::sqrt on the squares of rationals, the only arguments the model passes.
IntSqrt(n) == CHOOSE r \in 0..n : r * r = n

FSqrt(a) == <<IntSqrt(a[1]), IntSqrt(a[2])>>


(***************************************************************************)
(* Option<U128>: None is the empty sequence, Some(n) the sequence <<n>>.   *)
(***************************************************************************)
None == <<>>
Some(n) == <<n>>
is_some(o) == o # None
unwrap(o) == o[1]

(***************************************************************************)
(* position.rs: tick / price arithmetic                                    *)
(***************************************************************************)
\* crate::BASIS_POINT.  The crate's value is about 1.0001; the model's grid is
\* coarser, with sqrt(BASIS_POINT) = 2.
BASIS_POINT == F(4)

RECURSIVE FPowInt(_, _)
FPowInt(b, k) == IF k = 0 THEN One ELSE FMul(b, FPowInt(b, k - 1))

\* BASIS_POINT.powf(tick as f64 / 2.0) = sqrt(BASIS_POINT)^tick
tick_to_sqrt_price(tick) ==
    IF tick >= 0 THEN FPowInt(FSqrt(BASIS_POINT), tick)
    ELSE FDiv(One, FPowInt(FSqrt(BASIS_POINT), -tick))

RECURSIVE FloorLogUp(_, _)
FloorLogUp(s, t) ==
    IF FLt(s, tick_to_sqrt_price(t + 1)) THEN t ELSE FloorLogUp(s, t + 1)

RECURSIVE FloorLogDown(_, _)
FloorLogDown(s, t) ==
    IF FLe(tick_to_sqrt_price(t), s) THEN t ELSE FloorLogDown(s, t - 1)

I32_MAX == 2147483647

I32_MIN == -2147483647 - 1

\* (2.0 * sqrt_price.log(BASIS_POINT)).floor() as i32.  For a finite
\* sqrt_price > 0 it is the tick t with BASIS^(t/2) <= sqrt_price < BASIS^((t+1)/2).
\* The logarithm of a negative number or of NaN is NaN, which the cast turns
\* into 0; the cast saturates at the infinities (log(0) = -inf).
sqrt_price_to_tick(sqrt_price) ==
    IF IsNaN(sqrt_price) \/ FLt(sqrt_price, Zero) THEN 0
    ELSE IF sqrt_price = Zero THEN I32_MIN
    ELSE IF sqrt_price = PosInf THEN I32_MAX
    ELSE IF FGe(sqrt_price, One) THEN FloorLogUp(sqrt_price, 0)
    ELSE FloorLogDown(sqrt_price, -1)

\* The unit of the last place of the model's rounded results is 2^-RoundingBits
\* of the value.
RoundingBits == 4

RECURSIVE IntPow(_, _)
IntPow(b, k) == IF k = 0 THEN 1 ELSE b * IntPow(b, k - 1)

\* The results a build can return for a library function whose exact result is
\* v: f64::powf and f64::log have unspecified precision, so the result is v or
\* a neighbour of v one unit of the last place away.  Zero, the infinities
\* and NaN are returned as they are.
f64_outcomes(v) ==
    IF IsFinite(v) /\ v[1] # 0
    THEN {FMul(v, Norm(IntPow(2, RoundingBits) - 1, IntPow(2, RoundingBits))),
          v,
          FMul(v, Norm(IntPow(2, RoundingBits) + 1, IntPow(2, RoundingBits)))}
    ELSE {v}

\* tick_to_sqrt_price(tick) as computed: BASIS_POINT.powf(tick as f64 / 2.0).
tick_to_sqrt_price_f64(tick) == f64_outcomes(tick_to_sqrt_price(tick))

\* sqrt_price_to_tick(sqrt_price) as computed: the floor of twice the
\* logarithm log returns, which is the logarithm of sqrt_price or of a
\* neighbour of it.
sqrt_price_to_tick_f64(sqrt_price) == {sqrt_price_to_tick(s) : s \in f64_outcomes(sqrt_price)}

min(first, second) == IF FLt(first, second) THEN first ELSE second

max(first, second) == IF FGt(first, second) THEN first ELSE second

get_liquidity_0(x, sa, sb) == FDiv(FMul(FMul(x, sa), sb), FSub(sb, sa))

get_liquidity_1(y, sa, sb) == FDiv(y, FSub(sb, sa))

calculate_x(l, sp0, sa, sb) ==
    LET sp == max(min(sp0, sb), sa)
    IN  FDiv(FMul(l, FSub(sb, sp)), FMul(sp, sb))

calculate_y(l, sp0, sa, sb) ==
    LET sp == max(min(sp0, sb), sa)
    IN  FMul(l, FSub(sp, sa))

(***************************************************************************)
(* position.rs: Position                                                   *)
(***************************************************************************)
\* Position::is_active(&self, sqrt_price)
is_active(self, sqrt_price) ==
    /\ FLe(self.sqrt_lower_bound_price, sqrt_price)
    /\ FGe(self.sqrt_upper_bound_price, sqrt_price)

\* Position::new's checks as they would be with the side of the price tested
\* before the amount.
PositionNewErrorSideFirst(token0_liquidity, token1_liquidity, lower_bound_price, upper_bound_price, sqrt_price) ==
    LET sqrt_lower_bound_price ==
            tick_to_sqrt_price(sqrt_price_to_tick(FSqrt(lower_bound_price)))
        sqrt_upper_bound_price ==
            tick_to_sqrt_price(sqrt_price_to_tick(FSqrt(upper_bound_price)))
    IN  IF is_some(token0_liquidity) = is_some(token1_liquidity)
        THEN "INCORRECT_TOKEN"
        ELSE IF ~FLt(lower_bound_price, upper_bound_price)
        THEN "assertion failed: lower_bound_price < upper_bound_price"
        ELSE IF is_some(token0_liquidity)
        THEN IF ~FLe(sqrt_price, sqrt_upper_bound_price)
             THEN "send token1 liquidity instead of token0"
             ELSE IF ~FGt(F(unwrap(token0_liquidity)), Zero)
             THEN "token0 liqudity cannot be 0"
             ELSE ""
        ELSE IF ~FGe(sqrt_price, sqrt_lower_bound_price)
             THEN "send token0 liquidity instead of token1"
             ELSE IF ~FGt(F(unwrap(token1_liquidity)), Zero)
             THEN "token1 liqudity cannot be 0"
             ELSE ""

\* The panic of Position::new, or "" when it returns a position.
PositionNewError(token0_liquidity, token1_liquidity, lower_bound_price, upper_bound_price, sqrt_price) ==
    LET sqrt_lower_bound_price ==
            tick_to_sqrt_price(sqrt_price_to_tick(FSqrt(lower_bound_price)))
        sqrt_upper_bound_price ==
            tick_to_sqrt_price(sqrt_price_to_tick(FSqrt(upper_bound_price)))
    IN  IF is_some(token0_liquidity) = is_some(token1_liquidity)
        THEN "INCORRECT_TOKEN"
        ELSE IF ~FLt(lower_bound_price, upper_bound_price)
        THEN "assertion failed: lower_bound_price < upper_bound_price"
        ELSE IF is_some(token0_liquidity)
        THEN IF ~FGt(F(unwrap(token0_liquidity)), Zero)
             THEN "token0 liqudity cannot be 0"
             ELSE IF ~FLe(sqrt_price, sqrt_upper_bound_price)
             THEN "send token1 liquidity instead of token0"
             ELSE ""
        ELSE IF ~FGt(F(unwrap(token1_liquidity)), Zero)
             THEN "token1 liqudity cannot be 0"
             ELSE IF ~FGe(sqrt_price, sqrt_lower_bound_price)
             THEN "send token0 liquidity instead of token1"
             ELSE ""

\* Position::new, where it returns.
PositionNew(owner_id, token0_liquidity, token1_liquidity, lower_bound_price, upper_bound_price, sqrt_price) ==
    LET tick_lower_bound_price == sqrt_price_to_tick(FSqrt(lower_bound_price))
        tick_upper_bound_price == sqrt_price_to_tick(FSqrt(upper_bound_price))
        sqrt_lower_bound_price == tick_to_sqrt_price(tick_lower_bound_price)
        sqrt_upper_bound_price == tick_to_sqrt_price(tick_upper_bound_price)
        inside0 == /\ FLt(sqrt_lower_bound_price, sqrt_price)
                   /\ FLt(sqrt_price, sqrt_upper_bound_price)
        inside1 == /\ FLe(sqrt_lower_bound_price, sqrt_price)
                   /\ FLe(sqrt_price, sqrt_upper_bound_price)
        liquidity ==
            IF is_some(token0_liquidity)
            THEN IF inside0
                 THEN get_liquidity_0(F(unwrap(token0_liquidity)), sqrt_price,
                                      sqrt_upper_bound_price)
                 ELSE get_liquidity_0(F(unwrap(token0_liquidity)),
                                      sqrt_lower_bound_price, sqrt_upper_bound_price)
            ELSE IF inside1
                 THEN get_liquidity_1(F(unwrap(token1_liquidity)),
                                      sqrt_lower_bound_price, sqrt_price)
                 ELSE get_liquidity_1(F(unwrap(token1_liquidity)),
                                      sqrt_lower_bound_price, sqrt_upper_bound_price)
        x == IF is_some(token0_liquidity)
             THEN F(unwrap(token0_liquidity))
             ELSE calculate_x(liquidity, sqrt_price, sqrt_lower_bound_price,
                              sqrt_upper_bound_price)
        y == IF is_some(token0_liquidity)
             THEN calculate_y(liquidity, sqrt_price, sqrt_lower_bound_price,
                              sqrt_upper_bound_price)
             ELSE F(unwrap(token1_liquidity))
    IN  [owner_id |-> owner_id,
         liquidity |-> liquidity,
         token0_locked |-> x,
         token1_locked |-> y,
         tick_lower_bound_price |-> tick_lower_bound_price,
         tick_upper_bound_price |-> tick_upper_bound_price,
         sqrt_lower_bound_price |-> sqrt_lower_bound_price,
         sqrt_upper_bound_price |-> sqrt_upper_bound_price,
         is_active |-> TRUE,
         last_update |-> 0,
         rewards_for_time |-> 0,
         fees_earned_token0 |-> 0,
         fees_earned_token1 |-> 0]

\* Position::refresh(&mut self, sqrt_price, current_timestamp), for
\* current_timestamp >= self.last_update (the u64 subtraction does not wrap).
PositionRefresh(self, sqrt_price, current_timestamp) ==
    [self EXCEPT
        !.token0_locked = calculate_x(self.liquidity, sqrt_price,
                                      self.sqrt_lower_bound_price,
                                      self.sqrt_upper_bound_price),
        !.token1_locked = calculate_y(self.liquidity, sqrt_price,
                                      self.sqrt_lower_bound_price,
                                      self.sqrt_upper_bound_price),
        !.rewards_for_time = IF self.is_active
                             THEN current_timestamp - self.last_update
                             ELSE self.rewards_for_time,
        !.is_active = is_active(self, sqrt_price),
        !.last_update = current_timestamp]

\* The tail shared by add_liquidity and remove_liquidity once the supplied
\* side's locked amount has been written and the asserts have passed: the
\* liquidity is recomputed from that locked amount and the other side's
\* locked amount from the liquidity.
PositionRelock(self, token0_supplied, sqrt_price) ==
    LET inside0 == /\ FLt(self.sqrt_lower_bound_price, sqrt_price)
                   /\ FLt(sqrt_price, self.sqrt_upper_bound_price)
        inside1 == /\ FLe(self.sqrt_lower_bound_price, sqrt_price)
                   /\ FLe(sqrt_price, self.sqrt_upper_bound_price)
        liquidity ==
            IF token0_supplied
            THEN IF inside0
                 THEN get_liquidity_0(self.token0_locked, sqrt_price,
                                      self.sqrt_upper_bound_price)
                 ELSE get_liquidity_0(self.token0_locked, self.sqrt_lower_bound_price,
                                      self.sqrt_upper_bound_price)
            ELSE IF inside1
                 THEN get_liquidity_1(self.token1_locked, self.sqrt_lower_bound_price,
                                      sqrt_price)
                 ELSE get_liquidity_1(self.token1_locked, self.sqrt_lower_bound_price,
                                      self.sqrt_upper_bound_price)
    IN  IF token0_supplied
        THEN [self EXCEPT !.liquidity = liquidity,
                          !.token1_locked = calculate_y(liquidity, sqrt_price,
                                                        self.sqrt_lower_bound_price,
                                                        self.sqrt_upper_bound_price)]
        ELSE [self EXCEPT !.liquidity = liquidity,
                          !.token0_locked = calculate_x(liquidity, sqrt_price,
                                                        self.sqrt_lower_bound_price,
                                                        self.sqrt_upper_bound_price)]

\* add_liquidity as it would be if the first assert only required that an
\* amount is supplied (|| in place of ^): with both amounts the token0 branch
\* runs.
PositionAddLiquidityEitherToken(self, token0_liquidity, token1_liquidity, sqrt_price) ==
    IF ~is_some(token0_liquidity) /\ ~is_some(token1_liquidity)
    THEN [error |-> "INCORRECT_TOKEN", position |-> self]
    ELSE IF is_some(token0_liquidity)
    THEN LET written == [self EXCEPT !.token0_locked =
                                FAdd(self.token0_locked, F(unwrap(token0_liquidity)))]
         IN  IF ~FLe(sqrt_price, self.sqrt_upper_bound_price)
             THEN [error |-> "send token1 liquidity instead of token0",
                   position |-> written]
             ELSE [error |-> "", position |-> PositionRelock(written, TRUE, sqrt_price)]
    ELSE LET written == [self EXCEPT !.token1_locked =
                                FAdd(self.token1_locked, F(unwrap(token1_liquidity)))]
         IN  IF ~FGe(sqrt_price, self.sqrt_lower_bound_price)
             THEN [error |-> "send token0 liquidity instead of token0",
                   position |-> written]
             ELSE [error |-> "", position |-> PositionRelock(written, FALSE, sqrt_price)]

\* Position::add_liquidity(&mut self, token0_liquidity, token1_liquidity,
\* sqrt_price).  The result is the panic message ("" when the call returns)
\* and the position as it is when the call returns or panics.
PositionAddLiquidity(self, token0_liquidity, token1_liquidity, sqrt_price) ==
    IF is_some(token0_liquidity) = is_some(token1_liquidity)
    THEN [error |-> "INCORRECT_TOKEN", position |-> self]
    ELSE IF is_some(token0_liquidity)
    THEN LET written == [self EXCEPT !.token0_locked =
                                FAdd(self.token0_locked, F(unwrap(token0_liquidity)))]
         IN  IF ~FLe(sqrt_price, self.sqrt_upper_bound_price)
             THEN [error |-> "send token1 liquidity instead of token0",
                   position |-> written]
             ELSE [error |-> "", position |-> PositionRelock(written, TRUE, sqrt_price)]
    ELSE LET written == [self EXCEPT !.token1_locked =
                                FAdd(self.token1_locked, F(unwrap(token1_liquidity)))]
         IN  IF ~FGe(sqrt_price, self.sqrt_lower_bound_price)
             THEN [error |-> "send token0 liquidity instead of token0",
                   position |-> written]
             ELSE [error |-> "", position |-> PositionRelock(written, FALSE, sqrt_price)]

\* Position::remove_liquidity(&mut self, token0_liquidity, token1_liquidity,
\* sqrt_price), with the same result as PositionAddLiquidity.
PositionRemoveLiquidity(self, token0_liquidity, token1_liquidity, sqrt_price) ==
    IF is_some(token0_liquidity) = is_some(token1_liquidity)
    THEN [error |-> "INCORRECT_TOKEN", position |-> self]
    ELSE IF is_some(token0_liquidity)
    THEN LET written == [self EXCEPT !.token0_locked =
                                FSub(self.token0_locked, F(unwrap(token0_liquidity)))]
         IN  IF ~FGt(written.token0_locked, Zero)
             THEN [error |-> "assertion failed: self.token0_locked > 0.0",
                   position |-> written]
             ELSE IF ~FLe(sqrt_price, self.sqrt_upper_bound_price)
             THEN [error |-> "send token1 liquidity instead of token0",
                   position |-> written]
             ELSE [error |-> "", position |-> PositionRelock(written, TRUE, sqrt_price)]
    ELSE LET written == [self EXCEPT !.token1_locked =
                                FSub(self.token1_locked, F(unwrap(token1_liquidity)))]
         IN  IF ~FGt(written.token1_locked, Zero)
             THEN [error |-> "assertion failed: self.token1_locked > 0.0",
                   position |-> written]
             ELSE IF ~FGe(sqrt_price, self.sqrt_lower_bound_price)
             THEN [error |-> "send token0 liquidity instead of token0",
                   position |-> written]
             ELSE [error |-> "", position |-> PositionRelock(written, FALSE, sqrt_price)]

(***************************************************************************)
(* pool.rs: Pool                                                           *)
(***************************************************************************)
\* Pool::new
PoolNew(token0, token1, price, protocol_fee, rewards) ==
    [token0 |-> token0,
     token1 |-> token1,
     liquidity |-> Zero,
     sqrt_price |-> FSqrt(price),
     positions |-> <<>>,
     tick |-> sqrt_price_to_tick(FSqrt(price)),
     protocol_fee |-> protocol_fee,
     rewards |-> rewards]

\* The test of check_available_liquidity and of the branches of the two step
\* functions for "price goes down".
PriceGoesDown(self, token, direction) ==
    \/ direction = "Expense" /\ token = self.token1
    \/ direction = "Return" /\ token = self.token0

\* A faulty check_available_liquidity that is satisfied by any position,
\* whichever side of the price it lies on; under it a walk away from the
\* positions never runs out of liquidity to look for.
check_available_liquidity_any_side(self, sqrt_price, token, direction) ==
    Len(self.positions) > 0

\* A faulty check_available_liquidity that looks at the bound on the wrong side
\* of the price; C6 must not hold of it.
check_available_liquidity_wrong_side(self, sqrt_price, token, direction) ==
    \E i \in 1..Len(self.positions) :
        IF PriceGoesDown(self, token, direction)
        THEN FGt(self.positions[i].sqrt_lower_bound_price, sqrt_price)
        ELSE FLt(self.positions[i].sqrt_upper_bound_price, sqrt_price)

\* Pool::check_available_liquidity: the loop returns true at the first position
\* that lies wholly beyond sqrt_price in the direction of motion.
check_available_liquidity(self, sqrt_price, token, direction) ==
    \E i \in 1..Len(self.positions) :
        IF PriceGoesDown(self, token, direction)
        THEN FLt(self.positions[i].sqrt_upper_bound_price, sqrt_price)
        ELSE FGt(self.positions[i].sqrt_lower_bound_price, sqrt_price)

RECURSIVE SumActive(_, _, _)
SumActive(positions, sqrt_price, i) ==
    IF i = 0 THEN Zero
    ELSE LET liquidity == SumActive(positions, sqrt_price, i - 1)
         IN  IF is_active(positions[i], sqrt_price)
             THEN FAdd(liquidity, positions[i].liquidity)
             ELSE liquidity

\* Pool::calculate_liquidity_within_tick
calculate_liquidity_within_tick(self, sqrt_price) ==
    SumActive(self.positions, sqrt_price, Len(self.positions))

\* get_amount_in_within_tick as it would be if a step that reaches the boundary
\* did not move the cursor tick.
get_amount_in_within_tick_tick_kept(self, tick, sqrt_price, token_out, remaining, liquidity) ==
    IF token_out = self.token1
    THEN LET new_sqrt_price == tick_to_sqrt_price(tick - 1)
             amount_in == FMul(FSub(FDiv(One, new_sqrt_price), FDiv(One, sqrt_price)), liquidity)
             amount_out == FMul(FSub(new_sqrt_price, sqrt_price), liquidity)
         IN  IF FGt(FNeg(amount_out), remaining)
             THEN LET delta_sqrt_price == FDiv(remaining, liquidity)
                      partial_sqrt_price == FSub(sqrt_price, delta_sqrt_price)
                  IN  [tick |-> tick,
                       sqrt_price |-> partial_sqrt_price,
                       remaining |-> Zero,
                       amount |-> FAbs(FMul(FSub(FDiv(One, partial_sqrt_price), FDiv(One, sqrt_price)), liquidity))]
             ELSE [tick |-> tick,
                   sqrt_price |-> new_sqrt_price,
                   remaining |-> FAdd(remaining, amount_out),
                   amount |-> FAbs(amount_in)]
    ELSE LET new_sqrt_price == tick_to_sqrt_price(tick + 1)
             amount_in == FMul(FSub(new_sqrt_price, sqrt_price), liquidity)
             amount_out == FMul(FSub(FDiv(One, new_sqrt_price), FDiv(One, sqrt_price)), liquidity)
         IN  IF FGt(FNeg(amount_out), remaining)
             THEN LET delta_reversed_sqrt_price == FDiv(remaining, liquidity)
                      partial_sqrt_price ==
                          FDiv(sqrt_price, FAdd(FMul(FNeg(delta_reversed_sqrt_price), sqrt_price), One))
                  IN  [tick |-> tick,
                       sqrt_price |-> partial_sqrt_price,
                       remaining |-> Zero,
                       amount |-> FAbs(FMul(FSub(partial_sqrt_price, sqrt_price), liquidity))]
             ELSE [tick |-> tick,
                   sqrt_price |-> new_sqrt_price,
                   remaining |-> FAdd(remaining, amount_out),
                   amount |-> FAbs(amount_in)]

\* Pool::get_amount_in_within_tick; the &mut arguments come back in the record.
get_amount_in_within_tick(self, tick, sqrt_price, token_out, remaining, liquidity) ==
    IF token_out = self.token1
    THEN LET new_sqrt_price == tick_to_sqrt_price(tick - 1)
             amount_in == FMul(FSub(FDiv(One, new_sqrt_price), FDiv(One, sqrt_price)), liquidity)
             amount_out == FMul(FSub(new_sqrt_price, sqrt_price), liquidity)
         IN  IF FGt(FNeg(amount_out), remaining)
             THEN LET delta_sqrt_price == FDiv(remaining, liquidity)
                      partial_sqrt_price == FSub(sqrt_price, delta_sqrt_price)
                  IN  [tick |-> tick,
                       sqrt_price |-> partial_sqrt_price,
                       remaining |-> Zero,
                       amount |-> FAbs(FMul(FSub(FDiv(One, partial_sqrt_price), FDiv(One, sqrt_price)), liquidity))]
             ELSE [tick |-> tick - 1,
                   sqrt_price |-> new_sqrt_price,
                   remaining |-> FAdd(remaining, amount_out),
                   amount |-> FAbs(amount_in)]
    ELSE LET new_sqrt_price == tick_to_sqrt_price(tick + 1)
             amount_in == FMul(FSub(new_sqrt_price, sqrt_price), liquidity)
             amount_out == FMul(FSub(FDiv(One, new_sqrt_price), FDiv(One, sqrt_price)), liquidity)
         IN  IF FGt(FNeg(amount_out), remaining)
             THEN LET delta_reversed_sqrt_price == FDiv(remaining, liquidity)
                      partial_sqrt_price ==
                          FDiv(sqrt_price, FAdd(FMul(FNeg(delta_reversed_sqrt_price), sqrt_price), One))
                  IN  [tick |-> tick,
                       sqrt_price |-> partial_sqrt_price,
                       remaining |-> Zero,
                       amount |-> FAbs(FMul(FSub(partial_sqrt_price, sqrt_price), liquidity))]
             ELSE [tick |-> tick + 1,
                   sqrt_price |-> new_sqrt_price,
                   remaining |-> FAdd(remaining, amount_out),
                   amount |-> FAbs(amount_in)]

\* Pool::get_amount_out_within_tick; the &mut arguments come back in the record.
get_amount_out_within_tick(self, tick, sqrt_price, token_in, remaining, liquidity) ==
    IF token_in = self.token1
    THEN LET new_sqrt_price == tick_to_sqrt_price(tick + 1)
             amount_out == FMul(FSub(FDiv(One, new_sqrt_price), FDiv(One, sqrt_price)), liquidity)
             amount_in == FMul(FSub(new_sqrt_price, sqrt_price), liquidity)
         IN  IF FGt(amount_in, remaining)
             THEN LET delta_sqrt_price == FDiv(remaining, liquidity)
                      partial_sqrt_price == FAdd(sqrt_price, delta_sqrt_price)
                  IN  [tick |-> tick,
                       sqrt_price |-> partial_sqrt_price,
                       remaining |-> Zero,
                       amount |-> FAbs(FMul(FSub(FDiv(One, partial_sqrt_price), FDiv(One, sqrt_price)), liquidity))]
             ELSE [tick |-> tick + 1,
                   sqrt_price |-> new_sqrt_price,
                   remaining |-> FSub(remaining, amount_in),
                   amount |-> FAbs(amount_out)]
    ELSE LET new_sqrt_price == tick_to_sqrt_price(tick - 1)
             amount_out == FMul(FSub(new_sqrt_price, sqrt_price), liquidity)
             amount_in == FMul(FSub(FDiv(One, new_sqrt_price), FDiv(One, sqrt_price)), liquidity)
         IN  IF FGt(amount_in, remaining)
             THEN LET delta_reversed_sqrt_price == FDiv(remaining, liquidity)
                      partial_sqrt_price ==
                          FDiv(sqrt_price, FAdd(FMul(FNeg(delta_reversed_sqrt_price), sqrt_price), One))
                  IN  [tick |-> tick,
                       sqrt_price |-> partial_sqrt_price,
                       remaining |-> Zero,
                       amount |-> FAbs(FMul(FSub(partial_sqrt_price, sqrt_price), liquidity))]
             ELSE [tick |-> tick - 1,
                   sqrt_price |-> new_sqrt_price,
                   remaining |-> FSub(remaining, amount_in),
                   amount |-> FAbs(amount_out)]

\* map.get(owner).unwrap_or(&0.0)
MapGet(map, owner) == IF owner \in DOMAIN map THEN map[owner] ELSE Zero

\* map.insert(owner, value)
MapInsert(map, owner, value) ==
    [o \in DOMAIN map \cup {owner} |-> IF o = owner THEN value ELSE map[o]]

\* One position's share of a step's amount, as collect_fees computes it.
FeeShare(self, position, liquidity, amount) ==
    FMul(FMul(FDiv(position.liquidity, liquidity), amount), FDiv(F(self.rewards), F(10000)))

RECURSIVE CollectFeesFrom(_, _, _, _, _, _)
CollectFeesFrom(self, liquidity, sqrt_price, amount, map, i) ==
    IF i > Len(self.positions) THEN map
    ELSE LET position == self.positions[i]
             share == FeeShare(self, position, liquidity, amount)
         IN  CollectFeesFrom(self, liquidity, sqrt_price, amount,
                 IF is_active(position, sqrt_price)
                 THEN MapInsert(map, position.owner_id, FAdd(share, MapGet(map, position.owner_id)))
                 ELSE map,
                 i + 1)

\* Pool::collect_fees: the map after the loop over the positions, in order.
collect_fees(self, liquidity, sqrt_price, amount, map) ==
    CollectFeesFrom(self, liquidity, sqrt_price, amount, map, 1)

(***************************************************************************)
(* Bounds of the model                                                     *)
(***************************************************************************)
\* Positions a pool holds at most.
MaxPositions == 2

\* Iterations of the loop of get_swap_result the model follows.
MaxSteps == 8

\* Largest timestamp.
MaxTime == 1

\* Largest numerator and denominator of a sqrt-price that is committed to the pool.
MaxMagnitude == 4

\* Operations after Pool::new in a behaviour of Spec.
MaxOps == 5

\* The number of calls made on one position, Position::new included.
MaxCalls == 3

\* Ticks converted to a price and back lie in -MaxTick .. MaxTick.
MaxTick == 8

\* The loop of get_swap_result (pool.rs:70-93) from the cursor cur on.  The
\* record that comes back holds the SwapResult (amount, new_liquidity,
\* new_sqrt_price, collected_fees) when status is "ok"; status is "panic" when
\* the loop panics with "Not enough liquidity in pool to cover this swap".
\* steps lists the iterations: the cursor and the tick liquidity before each
\* step, the step's amount and the cursor after it.
RECURSIVE SwapLoop(_, _, _, _, _)
SwapLoop(self, token, direction, cur, fuel) ==
    LET liquidity == calculate_liquidity_within_tick(self, cur.price)
        out(status) ==
            [status |-> status,
             amount |-> cur.collected,
             new_liquidity |-> liquidity,
             new_sqrt_price |-> cur.price,
             collected_fees |-> cur.collected_fees,
             tick |-> cur.tick,
             remaining |-> cur.remaining,
             steps |-> cur.steps]
    IN  IF ~FGt(cur.remaining, Zero) THEN out("ok")
        ELSE IF FEq(liquidity, Zero) /\ ~check_available_liquidity(self, cur.price, token, direction)
        THEN out("panic")
        ELSE IF fuel = 0 THEN out("unfinished")
        ELSE LET r == IF direction = "Expense"
                      THEN get_amount_in_within_tick(self, cur.tick, cur.price, token, cur.remaining, liquidity)
                      ELSE get_amount_out_within_tick(self, cur.tick, cur.price, token, cur.remaining, liquidity)
                 step == [tick |-> cur.tick,
                          sqrt_price |-> cur.price,
                          remaining |-> cur.remaining,
                          liquidity |-> liquidity,
                          amount |-> r.amount,
                          new_tick |-> r.tick,
                          new_sqrt_price |-> r.sqrt_price,
                          new_remaining |-> r.remaining]
             IN  SwapLoop(self, token, direction,
                     [collected |-> FAdd(cur.collected, r.amount),
                      tick |-> r.tick,
                      price |-> r.sqrt_price,
                      remaining |-> r.remaining,
                      collected_fees |-> collect_fees(self, liquidity, r.sqrt_price, r.amount, cur.collected_fees),
                      steps |-> Append(cur.steps, step)],
                     fuel - 1)

\* Pool::get_swap_result(&self, token, amount, direction)
get_swap_result(self, token, amount, direction) ==
    SwapLoop(self, token, direction,
        [collected |-> Zero,
         tick |-> self.tick,
         price |-> self.sqrt_price,
         remaining |-> F(amount),
         collected_fees |-> <<>>,
         steps |-> <<>>],
        MaxSteps)

\* Pool::refresh_liquidity
refresh_liquidity(self) ==
    [self EXCEPT !.liquidity = calculate_liquidity_within_tick(self, self.sqrt_price)]

\* Pool::refresh_positions
refresh_positions(self, current_timestamp) ==
    [self EXCEPT !.positions =
        [i \in 1..Len(self.positions) |->
            PositionRefresh(self.positions[i], self.sqrt_price, current_timestamp)]]

\* Pool::open_position
open_position(self, position) ==
    [self EXCEPT
        !.liquidity = IF is_active(position, self.sqrt_price)
                      THEN FAdd(self.liquidity, position.liquidity)
                      ELSE self.liquidity,
        !.positions = Append(self.positions, position)]

\* Pool::close_position, for id < positions.len() (index id is element id + 1).
close_position(self, id) ==
    [self EXCEPT
        !.liquidity = IF is_active(self.positions[id + 1], self.sqrt_price)
                      THEN FSub(self.liquidity, self.positions[id + 1].liquidity)
                      ELSE self.liquidity,
        !.positions = SubSeq(self.positions, 1, id) \o
                      SubSeq(self.positions, id + 2, Len(self.positions))]

\* A faulty apply_swap_result that commits the price and forgets the
\* liquidity; C7 must not hold of it.
apply_swap_result_price_only(self, swap_result) ==
    [self EXCEPT !.sqrt_price = swap_result.new_sqrt_price]

\* Pool::apply_swap_result
apply_swap_result(self, swap_result) ==
    [self EXCEPT
        !.liquidity = swap_result.new_liquidity,
        !.sqrt_price = swap_result.new_sqrt_price]

(***************************************************************************)
(* Inputs                                                                  *)
(***************************************************************************)
Token0 == "first"
Token1 == "second"
Tokens == {Token0, Token1}
Directions == {"Return", "Expense"}
Owners == {"alice", "bob"}
OneOwner == {"alice"}

\* price argument of Pool::new (sqrt-price 2, tick 1).
PoolPrices == {F(4)}

\* rewards and protocol_fee arguments of Pool::new, in basis points.
PoolRewards == {5000}
PoolProtocolFees == {100}

\* lower_bound_price / upper_bound_price arguments of Position::new
\* (sqrt-prices 1, 2, 4; ticks 0, 1, 2).
BoundPrices == {F(1), F(4), F(16)}

\* token0_liquidity / token1_liquidity arguments of Position::new.
DepositAmounts == {1}

\* amount argument of get_swap_result.
SwapAmounts == {1, 2}

\* Arguments of Position::new and Position::refresh for a position on its own:
\* bounds with sqrt 1, 2, 3, 4 (3 is off the tick grid and snaps to 2), and
\* sqrt-prices below, on, between and above the bounds.
PositionBoundPrices == {F(1), F(4), F(9), F(16)}
PositionSqrtPrices == {F(1), F(2), F(3), F(4)}
PositionAmounts == {0, 1, 2}

Small(a) == IsFinite(a) /\ IntAbs(a[1]) <= MaxMagnitude /\ a[2] <= MaxMagnitude

(***************************************************************************)
(* State                                                                   *)
(***************************************************************************)
VARIABLES
    pool,   \* the Pool
    quote,  \* the outcome of the last get_swap_result, while the caller holds it
    hist,   \* the last operation and what the properties need of the past
    nops,   \* operations since Pool::new (counted under Spec only)
    posn,   \* a Position on its own, with the last call made on it
    trip    \* a tick on its way through tick_to_sqrt_price and sqrt_price_to_tick

vars == <<pool, quote, hist, nops, posn, trip>>

\* fresh: the pool has not been written since the result was computed.
NoQuote == [status |-> "none", fresh |-> FALSE]

NoSnapshot == [liquidity |-> NaN, positions |-> <<>>, active |-> FALSE, valid |-> FALSE]

NoPosition == [status |-> "none"]

NoTrip == [status |-> "none"]

Init ==
    /\ \E price \in PoolPrices, protocol_fee \in PoolProtocolFees, rewards \in PoolRewards :
           pool = PoolNew(Token0, Token1, price, protocol_fee, rewards)
    /\ quote = NoQuote
    /\ hist = [op |-> "new", id |-> 0, fresh |-> FALSE, before_open |-> NoSnapshot]
    /\ nops = 0
    /\ posn = NoPosition
    /\ trip = NoTrip

Stale(q) == [q EXCEPT !.fresh = FALSE]

\* Position::new at the pool's price for one of the given owners, then
\* Pool::open_position.  hist keeps the cached liquidity and the positions the
\* pool had before the call.
OpenPositionBy(owners) ==
    /\ Len(pool.positions) < MaxPositions
    /\ \E owner_id \in owners, amount \in DepositAmounts, supplied \in Tokens,
          lower_bound_price \in BoundPrices, upper_bound_price \in BoundPrices :
           LET token0_liquidity == IF supplied = Token0 THEN Some(amount) ELSE None
               token1_liquidity == IF supplied = Token1 THEN Some(amount) ELSE None
               position == PositionNew(owner_id, token0_liquidity, token1_liquidity,
                                       lower_bound_price, upper_bound_price, pool.sqrt_price)
           IN  /\ PositionNewError(token0_liquidity, token1_liquidity, lower_bound_price,
                                   upper_bound_price, pool.sqrt_price) = ""
               /\ pool' = open_position(pool, position)
               /\ hist' = [op |-> "open_position", id |-> Len(pool.positions), fresh |-> FALSE,
                           before_open |-> [liquidity |-> pool.liquidity,
                                            positions |-> pool.positions,
                                            active |-> is_active(position, pool.sqrt_price),
                                            valid |-> TRUE]]
    /\ quote' = Stale(quote)

\* Pool::close_position(id); an id out of range panics and changes nothing.
ClosePosition ==
    /\ \E id \in 0..(Len(pool.positions) - 1) :
           /\ pool' = close_position(pool, id)
           /\ hist' = [op |-> "close_position", id |-> id, fresh |-> FALSE,
                       before_open |-> IF hist.op = "open_position" /\ hist.id = id
                                       THEN hist.before_open ELSE NoSnapshot]
    /\ quote' = Stale(quote)

RefreshLiquidity ==
    /\ pool' = refresh_liquidity(pool)
    /\ hist' = [op |-> "refresh_liquidity", id |-> 0, fresh |-> FALSE, before_open |-> NoSnapshot]
    /\ quote' = Stale(quote)

\* Pool::refresh_positions(current_timestamp); the host's clock does not run backwards.
RefreshPositions ==
    /\ \E current_timestamp \in 0..MaxTime :
           /\ \A i \in 1..Len(pool.positions) : pool.positions[i].last_update <= current_timestamp
           /\ pool' = refresh_positions(pool, current_timestamp)
    /\ hist' = [op |-> "refresh_positions", id |-> 0, fresh |-> FALSE, before_open |-> NoSnapshot]
    /\ quote' = Stale(quote)

\* A faulty get_swap_result that commits the price it arrives at; C4 must not
\* hold of it.
GetSwapResultCommitting ==
    /\ quote.status = "none"
    /\ \E token \in Tokens, amount \in SwapAmounts, direction \in Directions :
           LET result == get_swap_result(pool, token, amount, direction)
           IN  /\ quote' = [token |-> token, amount_arg |-> amount, direction |-> direction,
                            fresh |-> TRUE] @@ result
               /\ pool' = [pool EXCEPT !.sqrt_price = result.new_sqrt_price]
    /\ hist' = [op |-> "get_swap_result", id |-> 0, fresh |-> FALSE, before_open |-> NoSnapshot]

\* Pool::get_swap_result; the caller holds one SwapResult at a time.
GetSwapResult ==
    /\ quote.status = "none"
    /\ \E token \in Tokens, amount \in SwapAmounts, direction \in Directions :
           quote' = [token |-> token, amount_arg |-> amount, direction |-> direction, fresh |-> TRUE]
                    @@ get_swap_result(pool, token, amount, direction)
    /\ hist' = [op |-> "get_swap_result", id |-> 0, fresh |-> FALSE, before_open |-> NoSnapshot]
    /\ UNCHANGED pool

\* Pool::apply_swap_result of the SwapResult the caller holds; the pool may
\* have changed since the result was computed (quote.fresh is false).
ApplySwapResult ==
    /\ quote.status = "ok"
    /\ Small(quote.new_sqrt_price)
    /\ pool' = apply_swap_result(pool, quote)
    /\ hist' = [op |-> "apply_swap_result", id |-> 0, fresh |-> quote.fresh, before_open |-> NoSnapshot]
    /\ quote' = Stale(quote)

\* The caller drops the SwapResult it holds (a panicked call leaves none).
DiscardSwapResult ==
    /\ quote.status # "none"
    /\ quote' = NoQuote
    /\ UNCHANGED <<pool, hist>>

\* Every operation of the pool, in behaviours of at most MaxOps operations.
\* No operation but collect_fees reads owner_id, and the fee map is not part of
\* the pool, so one owner opens the positions here.
Next ==
    /\ nops < MaxOps
    /\ nops' = nops + 1
    /\ UNCHANGED <<posn, trip>>
    /\ \/ OpenPositionBy(OneOwner)
       \/ ClosePosition
       \/ RefreshLiquidity
       \/ RefreshPositions
       \/ GetSwapResult
       \/ ApplySwapResult
       \/ DiscardSwapResult

Spec == Init /\ [][Next]_vars

\* Positions are only opened and swaps quoted and committed: behaviours of any length.
NextSwap ==
    /\ UNCHANGED <<nops, posn, trip>>
    /\ \/ OpenPositionBy(Owners)
       \/ GetSwapResult
       \/ ApplySwapResult
       \/ DiscardSwapResult

SpecSwap == Init /\ [][NextSwap]_vars

\* Pool::new at price 1.0: the pool starts on the boundary of tick 0, two tick
\* boundaries below the highest bound of a position, so that a swap can cross
\* a boundary, end inside a tick and be committed.
InitAtTickZero ==
    /\ \E protocol_fee \in PoolProtocolFees, rewards \in PoolRewards :
           pool = PoolNew(Token0, Token1, F(1), protocol_fee, rewards)
    /\ quote = NoQuote
    /\ hist = [op |-> "new", id |-> 0, fresh |-> FALSE, before_open |-> NoSnapshot]
    /\ nops = 0
    /\ posn = NoPosition
    /\ trip = NoTrip

SpecSwapFromTickZero == InitAtTickZero /\ [][NextSwap]_vars

(***************************************************************************)
(* get_swap_result one iteration of its loop at a time                     *)
(***************************************************************************)
\* The locals of get_swap_result after its first five statements
\* (pool.rs:65-69).
StartCursor(self, amount) ==
    [collected |-> Zero,
     tick |-> self.tick,
     price |-> self.sqrt_price,
     remaining |-> F(amount),
     collected_fees |-> <<>>,
     steps |-> <<>>]

\* Pool::get_swap_result(token, amount, direction) is entered: quote holds the
\* arguments and the locals while the call runs.
GetSwapResultEnter ==
    /\ quote.status = "none"
    /\ \E token \in Tokens, amount \in SwapAmounts, direction \in Directions :
           quote' = [status |-> "running", token |-> token, amount_arg |-> amount,
                     direction |-> direction, fresh |-> TRUE,
                     cur |-> StartCursor(pool, amount)]
    /\ hist' = [op |-> "get_swap_result", id |-> 0, fresh |-> FALSE, before_open |-> NoSnapshot]
    /\ UNCHANGED pool

\* What a turn of the loop leaves in quote: r is the loop's record after the
\* turn.  While the loop goes on, the locals; when it is left, the outcome as
\* GetSwapResult leaves it.
AfterTurn(q, r) ==
    IF r.status = "unfinished"
    THEN [q EXCEPT !.cur = [collected |-> r.amount,
                            tick |-> r.tick,
                            price |-> r.new_sqrt_price,
                            remaining |-> r.remaining,
                            collected_fees |-> r.collected_fees,
                            steps |-> r.steps]]
    ELSE [token |-> q.token, amount_arg |-> q.amount_arg,
          direction |-> q.direction, fresh |-> TRUE] @@ r

\* One turn of the loop of the running call: the loop condition and the panic
\* are tested, and if the loop goes on its body runs once.  The model follows
\* a call for MaxSteps iterations.
GetSwapResultIterate ==
    /\ quote.status = "running"
    /\ Len(quote.cur.steps) < MaxSteps
    /\ quote' = AfterTurn(quote, SwapLoop(pool, quote.token, quote.direction, quote.cur, 1))
    /\ UNCHANGED <<pool, hist>>

\* The pool's operations between calls: nothing changes the pool while
\* get_swap_result, which borrows it, runs, and the caller holds no result
\* before the call is over.
NextWalk ==
    /\ UNCHANGED <<nops, posn, trip>>
    /\ \/ quote.status # "running" /\ OpenPositionBy(OneOwner)
       \/ GetSwapResultEnter
       \/ GetSwapResultIterate
       \/ ApplySwapResult
       \/ quote.status # "running" /\ DiscardSwapResult

SpecWalk == Init /\ [][NextWalk]_vars

\* The states in which GetSwapResultIterate is enabled.
LoopCanTurn == quote.status = "running" /\ Len(quote.cur.steps) < MaxSteps

\* The loop is sequential code: a call that is running takes its next turn.
\* This is WF_vars(GetSwapResultIterate), weak fairness of the loop's turn,
\* written out with LoopCanTurn for ENABLED <<GetSwapResultIterate>>_vars
\* (a turn always changes quote).
FairWalk == SpecWalk /\ ([]<>~LoopCanTurn \/ []<><<GetSwapResultIterate>>_vars)

\* The arguments a caller can pass for one amount: none, or some amount.
OptionalAmounts == {None} \cup {Some(amount) : amount \in PositionAmounts}

\* Position::new(owner_id, token0_liquidity, token1_liquidity, lower_bound_price,
\* upper_bound_price, sqrt_price), for every combination of arguments: posn
\* records the arguments, the panic message if the call panics and the
\* position if it returns.  due is the time the position has been credited
\* with by the claim's account of refresh: the sum of the intervals between
\* refreshes that began with is_active set.
PositionNewCall ==
    /\ posn.status = "none"
    /\ \E owner_id \in OneOwner, token0_liquidity \in OptionalAmounts,
          token1_liquidity \in OptionalAmounts,
          lower_bound_price \in PositionBoundPrices, upper_bound_price \in PositionBoundPrices,
          sqrt_price \in PositionSqrtPrices :
           LET error == PositionNewError(token0_liquidity, token1_liquidity,
                                         lower_bound_price, upper_bound_price, sqrt_price)
           IN  posn' = [status |-> IF error = "" THEN "ok" ELSE "panic",
                        op |-> "new",
                        error |-> error,
                        token0_liquidity |-> token0_liquidity,
                        token1_liquidity |-> token1_liquidity,
                        lower_bound_price |-> lower_bound_price,
                        upper_bound_price |-> upper_bound_price,
                        sqrt_price |-> sqrt_price,
                        was_active |-> FALSE,
                        current_timestamp |-> 0,
                        calls |-> 1,
                        due |-> 0,
                        before |-> NoPosition,
                        position |-> IF error = ""
                                     THEN PositionNew(owner_id, token0_liquidity,
                                                      token1_liquidity, lower_bound_price,
                                                      upper_bound_price, sqrt_price)
                                     ELSE NoPosition]

\* Position::refresh(sqrt_price, current_timestamp) on the position of posn.
PositionRefreshCall ==
    /\ posn.status = "ok"
    /\ posn.calls < MaxCalls
    /\ \E sqrt_price \in PositionSqrtPrices, current_timestamp \in 0..MaxTime :
           /\ posn.position.last_update <= current_timestamp
           /\ posn' = [posn EXCEPT !.op = "refresh",
                                   !.error = "",
                                   !.token0_liquidity = None,
                                   !.token1_liquidity = None,
                                   !.sqrt_price = sqrt_price,
                                   !.was_active = posn.position.is_active,
                                   !.current_timestamp = current_timestamp,
                                   !.calls = posn.calls + 1,
                                   !.due = IF posn.position.is_active
                                           THEN posn.due + (current_timestamp
                                                            - posn.position.last_update)
                                           ELSE posn.due,
                                   !.before = posn.position,
                                   !.position = PositionRefresh(posn.position, sqrt_price,
                                                                current_timestamp)]

\* What a call of add_liquidity or remove_liquidity leaves in posn: result is
\* the message and the position the operator computed; a panic ends the
\* history of the position, which is kept as it was at the point of failure.
PositionMutated(op, token0_liquidity, token1_liquidity, sqrt_price, result) ==
    [posn EXCEPT !.status = IF result.error = "" THEN "ok" ELSE "panic",
                 !.op = op,
                 !.error = result.error,
                 !.token0_liquidity = token0_liquidity,
                 !.token1_liquidity = token1_liquidity,
                 !.sqrt_price = sqrt_price,
                 !.was_active = posn.position.is_active,
                 !.calls = posn.calls + 1,
                 !.before = posn.position,
                 !.position = result.position]

\* Position::add_liquidity(token0_liquidity, token1_liquidity, sqrt_price) on
\* the position of posn.
PositionAddLiquidityCall ==
    /\ posn.status = "ok"
    /\ posn.calls < MaxCalls
    /\ \E token0_liquidity \in OptionalAmounts, token1_liquidity \in OptionalAmounts,
          sqrt_price \in PositionSqrtPrices :
           posn' = PositionMutated("add_liquidity", token0_liquidity, token1_liquidity,
                                   sqrt_price,
                                   PositionAddLiquidity(posn.position, token0_liquidity,
                                                        token1_liquidity, sqrt_price))

\* Position::remove_liquidity(token0_liquidity, token1_liquidity, sqrt_price)
\* on the position of posn.
PositionRemoveLiquidityCall ==
    /\ posn.status = "ok"
    /\ posn.calls < MaxCalls
    /\ \E token0_liquidity \in OptionalAmounts, token1_liquidity \in OptionalAmounts,
          sqrt_price \in PositionSqrtPrices :
           posn' = PositionMutated("remove_liquidity", token0_liquidity, token1_liquidity,
                                   sqrt_price,
                                   PositionRemoveLiquidity(posn.position, token0_liquidity,
                                                           token1_liquidity, sqrt_price))

NextPosition ==
    /\ UNCHANGED <<pool, quote, hist, nops, trip>>
    /\ \/ PositionNewCall
       \/ PositionRefreshCall
       \/ PositionAddLiquidityCall
       \/ PositionRemoveLiquidityCall

SpecPosition == Init /\ [][NextPosition]_vars

\* tick_to_sqrt_price(tick) for a tick of the bounded range.
TickToSqrtPriceCall ==
    /\ trip.status = "none"
    /\ \E tick \in -MaxTick..MaxTick :
           \E sqrt_price \in tick_to_sqrt_price_f64(tick) :
               trip' = [status |-> "price", tick |-> tick, sqrt_price |-> sqrt_price,
                        new_tick |-> 0]

\* sqrt_price_to_tick of the price the tick was converted to.
SqrtPriceToTickCall ==
    /\ trip.status = "price"
    /\ \E new_tick \in sqrt_price_to_tick_f64(trip.sqrt_price) :
           trip' = [trip EXCEPT !.status = "tick", !.new_tick = new_tick]

NextTick ==
    /\ UNCHANGED <<pool, quote, hist, nops, posn>>
    /\ \/ TickToSqrtPriceCall
       \/ SqrtPriceToTickCall

SpecTick == Init /\ [][NextTick]_vars

(***************************************************************************)
(* Properties                                                              *)
(***************************************************************************)
\* The loop of get_swap_result ends within the MaxSteps iterations the model follows.
NeverUnfinished == quote.status # "unfinished"

\* The pool is as the last get_swap_result saw it, and the call returned.
JustQuoted == hist.op = "get_swap_result" /\ quote.status = "ok"

\* The sum of L over the first n positions that are active at sqrt-price p.
RECURSIVE ActiveLiquidity(_, _, _)
ActiveLiquidity(positions, p, n) ==
    IF n = 0 THEN Zero
    ELSE IF FLe(positions[n].sqrt_lower_bound_price, p) /\ FLe(p, positions[n].sqrt_upper_bound_price)
         THEN FAdd(ActiveLiquidity(positions, p, n - 1), positions[n].liquidity)
         ELSE ActiveLiquidity(positions, p, n - 1)

\* The sum of the values of a fee map.
RECURSIVE SumOfFees(_)
SumOfFees(map) ==
    IF DOMAIN map = {} THEN Zero
    ELSE LET o == CHOOSE o \in DOMAIN map : TRUE
         IN  FAdd(map[o], SumOfFees([q \in DOMAIN map \ {o} |-> map[q]]))

\* Position i of the pool is active at p.
ActiveAt(i, p) ==
    /\ FLe(pool.positions[i].sqrt_lower_bound_price, p)
    /\ FLe(p, pool.positions[i].sqrt_upper_bound_price)

\* Some position of the pool is active at every price the quoted walk passed:
\* at the two ends of each of its steps.
SomePositionSpansPath ==
    \E i \in 1..Len(pool.positions) :
        \A k \in 1..Len(quote.steps) :
            /\ ActiveAt(i, quote.steps[k].sqrt_price)
            /\ ActiveAt(i, quote.steps[k].new_sqrt_price)

\* The walk of the quoted call cannot go on from sqrt-price p with tick
\* liquidity l: nothing is active there and no position has a bound strictly
\* beyond p in the direction of motion.
WalkStuck(p, l) ==
    /\ FEq(l, Zero)
    /\ \A i \in 1..Len(pool.positions) :
           IF (quote.direction = "Expense" /\ quote.token = pool.token1)
               \/ (quote.direction = "Return" /\ quote.token = pool.token0)
           THEN /\ ~FLt(pool.positions[i].sqrt_lower_bound_price, p)
                /\ ~FLt(pool.positions[i].sqrt_upper_bound_price, p)
           ELSE /\ ~FGt(pool.positions[i].sqrt_lower_bound_price, p)
                /\ ~FGt(pool.positions[i].sqrt_upper_bound_price, p)

\* C1: a get_swap_result with amount > 0 that returns reports a price that is
\* not above the pool's price when (direction, token) is (Expense, token1) or
\* (Return, token0), and not below it when it is (Expense, token0) or
\* (Return, token1).
C1_PriceDirection ==
    JustQuoted =>
        IF PriceGoesDown(pool, quote.token, quote.direction)
        THEN FLe(quote.new_sqrt_price, pool.sqrt_price)
        ELSE FGe(quote.new_sqrt_price, pool.sqrt_price)

\* C2: immediately after every open_position, close_position and
\* refresh_liquidity the pool's cached liquidity equals the sum of L over the
\* positions active at pool.sqrt_price.
C2_CachedLiquidity ==
    hist.op \in {"open_position", "close_position", "refresh_liquidity"} =>
        FEq(pool.liquidity, ActiveLiquidity(pool.positions, pool.sqrt_price, Len(pool.positions)))

\* C3: immediately after Pool::new, refresh_liquidity and refresh_positions,
\* pool.tick is the tick of pool.sqrt_price.
C3_TickOfPrice ==
    hist.op \in {"new", "refresh_liquidity", "refresh_positions"} =>
        pool.tick = sqrt_price_to_tick(pool.sqrt_price)

\* C4: a step in which get_swap_result is called, whether it returns a result
\* or panics, leaves every field of the pool as it was.
C4_GetSwapResultFrame ==
    [][(quote.status = "none" /\ quote'.status # "none") => pool' = pool]_vars

\* A call that walked over more than one step, on a pool of two positions.
C4_Witness ==
    /\ JustQuoted
    /\ Len(pool.positions) = 2
    /\ Len(quote.steps) >= 2

\* C5: when a position is active over the whole path of a get_swap_result that
\* returns, the values of collected_fees sum to rewards / 10000 of the amount.
C5_FeeConservation ==
    (JustQuoted /\ SomePositionSpansPath) =>
        FEq(SumOfFees(quote.collected_fees),
            FMul(FDiv(F(pool.rewards), F(10000)), quote.amount))

\* C6: get_swap_result panics for want of liquidity wherever the walk stands,
\* with something left to swap, at a price where the tick liquidity is 0 and no
\* position has a bound strictly beyond the price in the direction of motion;
\* so no step is taken from such a price, and every call on a pool without
\* positions panics.
C6_InsufficientLiquidity ==
    (hist.op = "get_swap_result" /\ quote.status # "none") =>
        /\ Len(pool.positions) = 0 => quote.status = "panic"
        /\ \A k \in 1..Len(quote.steps) :
               ~WalkStuck(quote.steps[k].sqrt_price, quote.steps[k].liquidity)
        /\ (FGt(quote.remaining, Zero) /\ WalkStuck(quote.new_sqrt_price, quote.new_liquidity))
               => quote.status = "panic"

\* A walk that took a step and then panicked on a pool that holds positions.
C6_Witness ==
    /\ hist.op = "get_swap_result"
    /\ quote.status = "panic"
    /\ Len(pool.positions) > 0
    /\ Len(quote.steps) > 0

\* C7: after apply_swap_result of a result that get_swap_result has just
\* returned, the pool's sqrt_price and liquidity are the result's, and the
\* result's liquidity is the sum of L over the positions active at its price.
C7_ApplyCommitsQuote ==
    (hist.op = "apply_swap_result" /\ hist.fresh /\ quote.status = "ok") =>
        /\ FEq(pool.sqrt_price, quote.new_sqrt_price)
        /\ FEq(pool.liquidity, quote.new_liquidity)
        /\ FEq(quote.new_liquidity,
               ActiveLiquidity(pool.positions, quote.new_sqrt_price, Len(pool.positions)))

\* A fresh result was applied that moved the price and changed the liquidity.
C7_Witness ==
    /\ hist.op = "apply_swap_result"
    /\ hist.fresh
    /\ quote.status = "ok"
    /\ Len(quote.steps) >= 2
    /\ quote.new_sqrt_price # quote.steps[1].sqrt_price
    /\ quote.new_liquidity # quote.steps[1].liquidity

\* C8: open_position of a position active at pool.sqrt_price, followed at once
\* by close_position of the index it was appended at, restores the cached
\* liquidity and the sequence of positions.
C8_OpenCloseRoundTrip ==
    (hist.op = "close_position" /\ hist.before_open.valid /\ hist.before_open.active) =>
        /\ FEq(pool.liquidity, hist.before_open.liquidity)
        /\ pool.positions = hist.before_open.positions

\* C9: immediately after Position::new and after Position::refresh the locked
\* amounts are x(L, p, p_a, p_b) and y(L, p, p_a, p_b) at the sqrt_price p
\* that was passed in.
C9_LockedAmounts ==
    (posn.status = "ok" /\ posn.op \in {"new", "refresh"}) =>
        /\ FEq(posn.position.token0_locked,
               calculate_x(posn.position.liquidity, posn.sqrt_price,
                           posn.position.sqrt_lower_bound_price,
                           posn.position.sqrt_upper_bound_price))
        /\ FEq(posn.position.token1_locked,
               calculate_y(posn.position.liquidity, posn.sqrt_price,
                           posn.position.sqrt_lower_bound_price,
                           posn.position.sqrt_upper_bound_price))

\* C10: immediately after Position::new and after Position::refresh the
\* is_active field is true exactly when p_a <= p <= p_b for the sqrt_price p
\* that was passed in.
C10_IsActiveFlag ==
    (posn.status = "ok" /\ posn.op \in {"new", "refresh"}) =>
        (posn.position.is_active <=>
            /\ FLe(posn.position.sqrt_lower_bound_price, posn.sqrt_price)
            /\ FLe(posn.sqrt_price, posn.position.sqrt_upper_bound_price))

\* Position::new has just returned a position.
JustCreated == posn.status = "ok" /\ posn.op = "new"

\* C11: every position Position::new returns has tick_lower_bound_price <
\* tick_upper_bound_price and sqrt_lower_bound_price < sqrt_upper_bound_price
\* after the bounds were snapped to the tick grid, for every accepted pair
\* lower_bound_price < upper_bound_price.
C11_SnappedBoundsOrdered ==
    JustCreated =>
        /\ posn.position.tick_lower_bound_price < posn.position.tick_upper_bound_price
        /\ FLt(posn.position.sqrt_lower_bound_price, posn.position.sqrt_upper_bound_price)

\* The last call was one of the three that take the two optional amounts.
TookAmounts == posn.status # "none" /\ posn.op \in {"new", "add_liquidity", "remove_liquidity"}

\* Both amounts or neither amount were passed to the last call.
BothOrNeither == is_some(posn.token0_liquidity) = is_some(posn.token1_liquidity)

\* C12: Position::new, add_liquidity and remove_liquidity fail with
\* INCORRECT_TOKEN exactly when both amounts or neither amount are supplied;
\* with exactly one amount supplied none of them fails with INCORRECT_TOKEN.
C12_IncorrectToken ==
    TookAmounts => (posn.error = "INCORRECT_TOKEN" <=> BothOrNeither)

\* add_liquidity was called with both amounts on a position and panicked
\* with INCORRECT_TOKEN.
C12_Witness ==
    /\ posn.status = "panic"
    /\ posn.op = "add_liquidity"
    /\ is_some(posn.token0_liquidity)
    /\ is_some(posn.token1_liquidity)
    /\ posn.error = "INCORRECT_TOKEN"

\* Position::new was called with exactly one amount and
\* lower_bound_price < upper_bound_price.
NewWithOneAmount ==
    /\ posn.status # "none"
    /\ posn.op = "new"
    /\ ~BothOrNeither
    /\ FLt(posn.lower_bound_price, posn.upper_bound_price)

\* The bounds Position::new snaps the arguments of the last call to.
SnappedLower == tick_to_sqrt_price(sqrt_price_to_tick(FSqrt(posn.lower_bound_price)))
SnappedUpper == tick_to_sqrt_price(sqrt_price_to_tick(FSqrt(posn.upper_bound_price)))

\* The message the claim gives for the arguments of the last call of
\* Position::new ("" where it says a position is returned).
ExpectedNewError ==
    IF is_some(posn.token0_liquidity)
    THEN IF unwrap(posn.token0_liquidity) = 0
         THEN "token0 liqudity cannot be 0"
         ELSE IF FGt(posn.sqrt_price, SnappedUpper)
         THEN "send token1 liquidity instead of token0"
         ELSE ""
    ELSE IF unwrap(posn.token1_liquidity) = 0
         THEN "token1 liqudity cannot be 0"
         ELSE IF FLt(posn.sqrt_price, SnappedLower)
         THEN "send token0 liquidity instead of token1"
         ELSE ""

\* C13: Position::new with exactly one amount and lower < upper fails with
\* "token0 liqudity cannot be 0" / "token1 liqudity cannot be 0" when the
\* supplied amount is 0, with "send token1 liquidity instead of token0" when
\* token0 is supplied and sqrt_price > p_b, with "send token0 liquidity
\* instead of token1" when token1 is supplied and sqrt_price < p_a, and
\* returns a position in every other case; the zero-amount check comes first.
C13_NewErrors ==
    NewWithOneAmount =>
        /\ posn.error = ExpectedNewError
        /\ posn.status = "ok" <=> ExpectedNewError = ""

\* Position::new was given a zero amount of token0 at a price above p_b, where
\* both checks would fail, and reported the zero amount.
C13_Witness ==
    /\ NewWithOneAmount
    /\ is_some(posn.token0_liquidity)
    /\ unwrap(posn.token0_liquidity) = 0
    /\ FGt(posn.sqrt_price, SnappedUpper)
    /\ posn.error = "token0 liqudity cannot be 0"

\* C14: when add_liquidity or remove_liquidity fails, every check has been
\* made before any field of the position is written: at the point of failure
\* liquidity, token0_locked and token1_locked have the values they had before
\* the call.
C14_FailureWritesNothing ==
    (posn.status = "panic" /\ posn.op \in {"add_liquidity", "remove_liquidity"}) =>
        /\ posn.position.liquidity = posn.before.liquidity
        /\ posn.position.token0_locked = posn.before.token0_locked
        /\ posn.position.token1_locked = posn.before.token1_locked

\* C15: for every tick t of the range, sqrt_price_to_tick(tick_to_sqrt_price(t))
\* is t, as the two functions are computed in f64.
C15_TickRoundTrip ==
    trip.status = "tick" => trip.new_tick = trip.tick

\* The fees of the first n steps of the walk held in quote as the claim
\* accounts for them: in each step the positions active at the price the step
\* starts from share the step's amount in proportion to their liquidity, L
\* being the tick liquidity at that price.
RECURSIVE FeesFromPreStepPrices(_)
FeesFromPreStepPrices(n) ==
    IF n = 0 THEN <<>>
    ELSE collect_fees(pool, quote.steps[n].liquidity, quote.steps[n].sqrt_price,
                      quote.steps[n].amount, FeesFromPreStepPrices(n - 1))

\* C16: in each step of get_swap_result the positions that receive a fee share
\* are exactly those active at the step's pre-step price p, each receiving
\* (position.liquidity / L) * step amount * (rewards / 10000) with L the tick
\* liquidity at p, accumulated per owner: a position that only becomes active
\* at the boundary the step reaches gets nothing for that step, and a
\* position active at p gets its share even if it is not active at the end
\* price.
C16_FeesAtPreStepPrice ==
    JustQuoted => quote.collected_fees = FeesFromPreStepPrices(Len(quote.steps))

\* C17: refresh on a position whose is_active flag is set before the call adds
\* current_timestamp - last_update to rewards_for_time, so that
\* rewards_for_time is the sum, over the refreshes, of the intervals that
\* began with the position active; with the flag clear rewards_for_time is
\* unchanged; in both cases last_update is current_timestamp afterwards.
C17_RewardsAccumulate ==
    (posn.status = "ok" /\ posn.op = "refresh") =>
        /\ posn.position.rewards_for_time =
               IF posn.was_active
               THEN posn.before.rewards_for_time
                    + (posn.current_timestamp - posn.before.last_update)
               ELSE posn.before.rewards_for_time
        /\ posn.position.rewards_for_time = posn.due
        /\ posn.position.last_update = posn.current_timestamp

\* The walk held in quote consists of one partial step: a step that uses up
\* the remaining amount inside the tick and leaves the cursor tick alone.
OnePartialStep ==
    /\ JustQuoted
    /\ Len(quote.steps) = 1
    /\ quote.steps[1].new_tick = quote.steps[1].tick

\* C18: a partial step leaves the cursor tick unchanged and ends inside the
\* current tick interval: for a swap of one partial step on a pool whose tick
\* is sqrt_price_to_tick(sqrt_price), sqrt_price_to_tick(new_sqrt_price) is
\* pool.tick, for both directions and both tokens, also when pool.sqrt_price
\* lies exactly on a tick boundary.
C18_PartialStepStaysInTick ==
    (OnePartialStep /\ pool.tick = sqrt_price_to_tick(pool.sqrt_price)) =>
        /\ quote.tick = pool.tick
        /\ sqrt_price_to_tick(quote.new_sqrt_price) = pool.tick

\* The price of the walk held in quote moves down.
QuoteGoesDown == PriceGoesDown(pool, quote.token, quote.direction)

\* Step k of the walk held in quote was taken with tick liquidity 0 while
\* some position has a bound strictly beyond the cursor in the direction of
\* motion.
GapStep(k) ==
    /\ FEq(quote.steps[k].liquidity, Zero)
    /\ \E i \in 1..Len(pool.positions) :
           IF QuoteGoesDown
           THEN \/ FLt(pool.positions[i].sqrt_lower_bound_price, quote.steps[k].sqrt_price)
                \/ FLt(pool.positions[i].sqrt_upper_bound_price, quote.steps[k].sqrt_price)
           ELSE \/ FGt(pool.positions[i].sqrt_lower_bound_price, quote.steps[k].sqrt_price)
                \/ FGt(pool.positions[i].sqrt_upper_bound_price, quote.steps[k].sqrt_price)

\* C19: a step taken while the tick liquidity is 0 and some position has a
\* bound strictly beyond the cursor in the direction of motion moves the
\* cursor tick by exactly one in that direction, sets the cursor price to
\* tick_to_sqrt_price of the new tick, adds 0 to the collected amount and
\* leaves remaining unchanged.
C19_GapStep ==
    (hist.op = "get_swap_result" /\ quote.status # "none") =>
        \A k \in 1..Len(quote.steps) :
            GapStep(k) =>
                /\ quote.steps[k].new_tick =
                       quote.steps[k].tick + (IF QuoteGoesDown THEN -1 ELSE 1)
                /\ quote.steps[k].new_sqrt_price = tick_to_sqrt_price(quote.steps[k].new_tick)
                /\ quote.steps[k].amount = Zero
                /\ quote.steps[k].new_remaining = quote.steps[k].remaining

\* A walk that returned after crossing a tick without liquidity.
C19_Witness ==
    /\ JustQuoted
    /\ \E k \in 1..Len(quote.steps) : GapStep(k)

\* C20: every call of get_swap_result terminates: it returns, or it panics
\* with "Not enough liquidity in pool to cover this swap", in every reachable
\* state of the pool, also with a tick that no longer belongs to the price and
\* across regions without liquidity.
C20_Terminates ==
    (quote.status = "running") ~> (quote.status \in {"ok", "panic"})

\* A call that returned on a pool whose tick no longer belongs to its price,
\* after a step through a region without liquidity.
C20_Witness ==
    /\ JustQuoted
    /\ pool.tick # sqrt_price_to_tick(pool.sqrt_price)
    /\ \E k \in 1..Len(quote.steps) : FEq(quote.steps[k].liquidity, Zero)

\* get_swap_result has just run: quote holds its walk, whether it returned or
\* panicked.
JustWalked == hist.op = "get_swap_result" /\ quote.status \in {"ok", "panic"}

\* C21: during get_swap_result the cursor's remaining amount never increases
\* from one loop iteration to the next, in every reachable pool state, also
\* one whose tick is no longer sqrt_price_to_tick(sqrt_price) after a swap
\* that crossed ticks was committed.
C21_RemainingNeverIncreases ==
    JustWalked =>
        \A k \in 1..Len(quote.steps) :
            ~FGt(quote.steps[k].new_remaining, quote.steps[k].remaining)

\* Position i of the pool is counted in the tick liquidity of step k of the
\* walk held in quote: it is active at the price the step starts from.
CountedInStep(i, k) == is_active(pool.positions[i], quote.steps[k].sqrt_price)

\* C22: no step of get_swap_result uses a position's liquidity over a price
\* interval outside the position's range: whenever a step trades from p to
\* p_new at tick liquidity L, every position counted in L has
\* p_a <= min(p, p_new) and max(p, p_new) <= p_b.
C22_LiquidityWithinRange ==
    JustWalked =>
        \A k \in 1..Len(quote.steps) :
            \A i \in 1..Len(pool.positions) :
                CountedInStep(i, k) =>
                    /\ FLe(pool.positions[i].sqrt_lower_bound_price,
                           min(quote.steps[k].sqrt_price, quote.steps[k].new_sqrt_price))
                    /\ FLe(max(quote.steps[k].sqrt_price, quote.steps[k].new_sqrt_price),
                           pool.positions[i].sqrt_upper_bound_price)

\* The two quotes of a swap made in two parts on the pool as it is, a first and
\* then b of token in direction, the first committed with apply_swap_result,
\* and the single quote of a + b.  second is read only when first returned.
TwoParts(token, direction, a, b) ==
    LET first == get_swap_result(pool, token, a, direction)
    IN  [first |-> first,
         second |-> IF first.status = "ok"
                    THEN get_swap_result(apply_swap_result(pool, first), token, b, direction)
                    ELSE first,
         whole |-> get_swap_result(pool, token, a + b, direction)]

\* The three calls of TwoParts returned.
AllReturned(parts) ==
    /\ parts.first.status = "ok"
    /\ parts.second.status = "ok"
    /\ parts.whole.status = "ok"

\* C23: swaps compose: for any pool state, token, direction and amounts
\* a, b > 0 for which the calls return, committing r1 = get_swap_result(a) and
\* then quoting r2 = get_swap_result(b) gives the outcome of the single quote
\* r = get_swap_result(a + b) on the original state: r2.new_sqrt_price is
\* r.new_sqrt_price and r1.amount + r2.amount is r.amount.
C23_SwapsCompose ==
    \A token \in Tokens, direction \in Directions, a \in SwapAmounts, b \in SwapAmounts :
        LET parts == TwoParts(token, direction, a, b)
        IN  AllReturned(parts) =>
                /\ FEq(parts.second.new_sqrt_price, parts.whole.new_sqrt_price)
                /\ FEq(FAdd(parts.first.amount, parts.second.amount), parts.whole.amount)

\* The positions whose owner the step k of the walk credits with a share of
\* the fees: collect_fees asks is_active at the price the step ended on.
CreditedInStep(i, k) == is_active(pool.positions[i], quote.steps[k].new_sqrt_price)

\* C24: every value in collected_fees of a returned SwapResult is a finite
\* number that is at least 0, and no step of the walk evaluates collect_fees
\* with tick liquidity 0 for a position it treats as active, also on a step
\* that crosses a region without liquidity and ends on a position's bound.
C24_FeesWellDefined ==
    JustQuoted =>
        /\ \A owner \in DOMAIN quote.collected_fees :
               /\ IsFinite(quote.collected_fees[owner])
               /\ FGe(quote.collected_fees[owner], Zero)
        /\ \A k \in 1..Len(quote.steps) :
               FEq(quote.steps[k].liquidity, Zero) =>
                   \A i \in 1..Len(pool.positions) : ~CreditedInStep(i, k)

=============================================================================
